---- MODULE Spec2Model ----
(***************************************************************************)
(* TagValidator (src/data_tags/tag_validator.py): a validator that loads a *)
(* JSON PII-classification document once and answers queries against it.   *)
(*                                                                         *)
(* Python values are tagged pairs <<tag, payload>>:                        *)
(*   <<"obj", pairs>>, written PyDict(pairs): a dict,                      *)
(*        kept as the sequence of its (key, value) items in insertion      *)
(*        order, keys unique (json.load builds dicts in document order);   *)
(*   <<"str", s>>, <<"int", n>>, <<"bool", b>>, <<"null", 0>> (None);      *)
(*   <<"list", <<s1, ...>>>>  a list of strings;                           *)
(*   <<"raise", e>>  is not a value: the evaluation raised exception e.    *)
(***************************************************************************)
EXTENDS Integers, Sequences, FiniteSets, TLC

VARIABLES
    source,   \* the file at schema_path: what open() and json.load find there
    state,    \* "new", then "ready" (the constructor returned) or "failed"
    schema,   \* self.schema
    raised,   \* the exception that ended the constructor
    call,     \* the last query called and its arguments
    result,   \* what it returned, or the exception it raised
    record,   \* the caller's candidate record as the last query left it
    alias,    \* where in self.schema the returned object lives (<<>>: nowhere)
    reads,    \* how many times the file was opened
    kept,     \* an earlier call and its result, as a caller kept them
    edit,     \* the last change a caller made to a returned object
    threads,  \* the concurrent callers of a shared validator
    probe     \* the run of test_no_authentication_required and its fixture

vars == <<source, state, schema, raised, call, result, record, alias, reads,
          kept, edit, threads, probe>>

----------------------------------------------------------------------------
(* Bounds of the model. *)

\* piiLevel entries of the enumerated documents range over 0..MaxLevel
MaxLevel == 4
NumCallers == 2
MaxUserId == 3

\* min_level arguments range over -Slack..MaxLevel+Slack
Slack == 1

----------------------------------------------------------------------------
(* Python values. *)

PyDict(pairs) == <<"obj", pairs>>
PyStr(s) == <<"str", s>>
PyInt(n) == <<"int", n>>
PyBool(b) == <<"bool", b>>
PyNone == <<"null", 0>>
PyList(seq) == <<"list", seq>>
Raise(e) == <<"raise", e>>

EmptyDict == PyDict(<<>>)

Tag(v) == v[1]
Val(v) == v[2]
IsDict(v) == Tag(v) = "obj"
IsRaise(v) == Tag(v) = "raise"

Keys(d) == {Val(d)[i][1] : i \in 1..Len(Val(d))}
HasKey(d, k) == k \in Keys(d)
Lookup(d, k) == Val(d)[CHOOSE i \in 1..Len(Val(d)) : Val(d)[i][1] = k][2]

\* v[k] with a string key k
subscript(v, k) ==
    CASE Tag(v) = "obj" -> IF HasKey(v, k) THEN Lookup(v, k) ELSE Raise("KeyError")
      [] OTHER -> Raise("TypeError")

\* v.get(k, default): only a dict has the method
get(v, k, default) ==
    CASE Tag(v) = "raise" -> v
      [] Tag(v) = "obj" -> IF HasKey(v, k) THEN Lookup(v, k) ELSE default
      [] OTHER -> Raise("AttributeError")

\* bool(v), as `if v` takes it
truthy(v) ==
    CASE Tag(v) = "bool" -> Val(v)
      [] Tag(v) = "int" -> Val(v) # 0
      [] Tag(v) = "str" -> Val(v) # ""
      [] Tag(v) = "null" -> FALSE
      [] Tag(v) = "obj" -> Val(v) # <<>>
      [] Tag(v) = "list" -> Val(v) # <<>>

\* a >= n for an int n: an int or a bool (an int in Python) compares, all else
\* raises TypeError
ge(a, n) ==
    CASE Tag(a) = "raise" -> a
      [] Tag(a) = "int" -> PyBool(Val(a) >= n)
      [] Tag(a) = "bool" -> PyBool((IF Val(a) THEN 1 ELSE 0) >= n)
      [] OTHER -> Raise("TypeError")

\* mutant: the test is  not data.get(field)
contains_truthy(data, k) == HasKey(data, k) /\ truthy(Lookup(data, k))

\* `k in data` for a dict data
contains(data, k) == HasKey(data, k)

----------------------------------------------------------------------------
(* The validator's operations; self is the value of self.schema. *)
\* mutant: every call opens and parses the schema file again
get_service_schema_reread(self, service_name) ==
    LET now == IF source[1] = "json" THEN source[2] ELSE self
        services == subscript(now, "services")
    IN  get(services, service_name, EmptyDict)

\* mutant: self.schema['services'][service_name]
get_service_schema_subscript(self, service_name) ==
    LET services == subscript(self, "services")
    IN  IF IsRaise(services) THEN services
        ELSE IF IsDict(services) THEN subscript(services, service_name)
        ELSE Raise("AttributeError")

get_service_schema(self, service_name) ==
    LET services == subscript(self, "services")
    IN  IF IsRaise(services) THEN services
        ELSE get(services, service_name, EmptyDict)

\* mutant: service.get('fields', {})[field_name]
get_field_tags_subscript(self, service_name, field_name) ==
    LET fields == get(get_service_schema(self, service_name), "fields", EmptyDict)
    IN  IF IsRaise(fields) THEN fields ELSE subscript(fields, field_name)

get_field_tags(self, service_name, field_name) ==
    LET service == get_service_schema(self, service_name)
    IN  get(get(service, "fields", EmptyDict), field_name, EmptyDict)

\* [field_name for field_name, field_info in items if field_info.get('required', False)]
RECURSIVE required_fields(_, _, _)
required_fields(items, i, acc) ==
    IF i > Len(items) THEN PyList(acc)
    ELSE LET flag == get(items[i][2], "required", PyBool(FALSE))
         IN  IF IsRaise(flag) THEN flag
             ELSE required_fields(items, i + 1,
                      IF truthy(flag) THEN Append(acc, items[i][1]) ELSE acc)

\* for field in required_fields: if field not in data: missing_fields.append(field)
RECURSIVE missing_fields(_, _, _, _)
missing_fields(required, data, i, acc) ==
    IF i > Len(required) THEN PyList(acc)
    ELSE missing_fields(required, data, i + 1,
             IF ~contains(data, required[i]) THEN Append(acc, required[i]) ELSE acc)

\* mutant: the comprehension's condition is  'required' in field_info
RECURSIVE required_fields_by_key(_, _, _)
required_fields_by_key(items, i, acc) ==
    IF i > Len(items) THEN PyList(acc)
    ELSE IF ~IsDict(items[i][2]) THEN Raise("TypeError")
    ELSE required_fields_by_key(items, i + 1,
             IF HasKey(items[i][2], "required") THEN Append(acc, items[i][1]) ELSE acc)

validate_field_exists_by_key(self, service_name, data) ==
    LET service == get_service_schema(self, service_name)
        fields == get(service, "fields", EmptyDict)
    IN  CASE IsRaise(fields) -> fields
          [] ~IsDict(fields) -> Raise("AttributeError")
          [] OTHER ->
               LET required == required_fields_by_key(Val(fields), 1, <<>>)
               IN  IF IsRaise(required) THEN required
                   ELSE missing_fields(Val(required), data, 1, <<>>)

validate_field_exists(self, service_name, data) ==
    LET service == get_service_schema(self, service_name)
        fields == get(service, "fields", EmptyDict)
    IN  CASE IsRaise(fields) -> fields
          [] ~IsDict(fields) -> Raise("AttributeError")
          [] OTHER ->
               LET required == required_fields(Val(fields), 1, <<>>)
               IN  IF IsRaise(required) THEN required
                   ELSE missing_fields(Val(required), data, 1, <<>>)

\* mutant: the loop's condition is  field_info.get('piiLevel', 3) >= min_level
RECURSIVE sensitive_loop_default3(_, _, _, _)
sensitive_loop_default3(items, min_level, i, acc) ==
    IF i > Len(items) THEN PyList(acc)
    ELSE LET test == ge(get(items[i][2], "piiLevel", PyInt(3)), min_level)
         IN  IF IsRaise(test) THEN test
             ELSE sensitive_loop_default3(items, min_level, i + 1,
                      IF Val(test) THEN Append(acc, items[i][1]) ELSE acc)

\* for field_name, field_info in items: if field_info.get('piiLevel', 0) >= min_level
RECURSIVE sensitive_loop(_, _, _, _)
sensitive_loop(items, min_level, i, acc) ==
    IF i > Len(items) THEN PyList(acc)
    ELSE LET test == ge(get(items[i][2], "piiLevel", PyInt(0)), min_level)
         IN  IF IsRaise(test) THEN test
             ELSE sensitive_loop(items, min_level, i + 1,
                      IF Val(test) THEN Append(acc, items[i][1]) ELSE acc)

\* mutant: the loop's condition is  field_info.get('piiLevel', 0) > min_level
get_sensitive_fields_strict(self, service_name, min_level) ==
    LET service == get_service_schema(self, service_name)
        fields == get(service, "fields", EmptyDict)
    IN  CASE IsRaise(fields) -> fields
          [] ~IsDict(fields) -> Raise("AttributeError")
          [] OTHER -> sensitive_loop(Val(fields), min_level + 1, 1, <<>>)

\* mutant: the loop's condition is  field_info.get('piiLevel', 0) <= min_level
RECURSIVE sensitive_loop_le(_, _, _, _)
sensitive_loop_le(items, min_level, i, acc) ==
    IF i > Len(items) THEN PyList(acc)
    ELSE LET test == ge(get(items[i][2], "piiLevel", PyInt(0)), min_level + 1)
         IN  IF IsRaise(test) THEN test
             ELSE sensitive_loop_le(items, min_level, i + 1,
                      IF ~Val(test) THEN Append(acc, items[i][1]) ELSE acc)

\* mutant: a field without a 'piiLevel' entry counts as level 3
get_sensitive_fields_default3(self, service_name, min_level) ==
    LET service == get_service_schema(self, service_name)
        fields == get(service, "fields", EmptyDict)
    IN  CASE IsRaise(fields) -> fields
          [] ~IsDict(fields) -> Raise("AttributeError")
          [] OTHER -> sensitive_loop_default3(Val(fields), min_level, 1, <<>>)

get_sensitive_fields_inverted(self, service_name, min_level) ==
    LET service == get_service_schema(self, service_name)
        fields == get(service, "fields", EmptyDict)
    IN  CASE IsRaise(fields) -> fields
          [] ~IsDict(fields) -> Raise("AttributeError")
          [] OTHER -> sensitive_loop_le(Val(fields), min_level, 1, <<>>)

get_sensitive_fields(self, service_name, min_level) ==
    LET service == get_service_schema(self, service_name)
        fields == get(service, "fields", EmptyDict)
    IN  CASE IsRaise(fields) -> fields
          [] ~IsDict(fields) -> Raise("AttributeError")
          [] OTHER -> sensitive_loop(Val(fields), min_level, 1, <<>>)

\* the default of the min_level parameter
DefaultMinLevel == 2

\* the fixed threshold of should_field_be_encrypted
EncryptLevel == 3

\* mutant: tags.get('piiLevel', 0) > 3
should_field_be_encrypted_strict(self, service_name, field_name) ==
    LET tags == get_field_tags(self, service_name, field_name)
    IN  ge(get(tags, "piiLevel", PyInt(0)), EncryptLevel + 1)

should_field_be_encrypted(self, service_name, field_name) ==
    LET tags == get_field_tags(self, service_name, field_name)
    IN  ge(get(tags, "piiLevel", PyInt(0)), EncryptLevel)

\* mutant: the method keeps its last answer and gives it again, whatever the
\* arguments of the next call
get_retention_policy_cached(self, service_name, field_name) ==
    IF call.op = "get_retention_policy" THEN result
    ELSE get(get_field_tags(self, service_name, field_name), "retention",
             PyStr("RETAIN_INDEFINITE"))

\* mutant: tags.get('retention'), whose default is None
get_retention_policy_none(self, service_name, field_name) ==
    LET tags == get_field_tags(self, service_name, field_name)
    IN  get(tags, "retention", PyNone)

get_retention_policy(self, service_name, field_name) ==
    LET tags == get_field_tags(self, service_name, field_name)
    IN  get(tags, "retention", PyStr("RETAIN_INDEFINITE"))

\* mutant: get_service_schema reads with
\* self.schema['services'].setdefault(service_name, {}), which stores the {}
schema_after_setdefault(self, c) ==
    IF /\ c.op # ""
       /\ IsDict(self) /\ HasKey(self, "services")
       /\ IsDict(Lookup(self, "services"))
       /\ ~HasKey(Lookup(self, "services"), c.service)
    THEN PyDict([i \in 1..Len(Val(self)) |->
             IF Val(self)[i][1] = "services"
             THEN <<"services", PyDict(Append(Val(Lookup(self, "services")),
                                              <<c.service, EmptyDict>>))>>
             ELSE Val(self)[i]])
    ELSE self

\* self.schema after query c: no query method assigns to self.schema or
\* stores into the document
schema_after(self, c) == self

\* the caller's record after validate_field_exists(service_name, data): the
\* method only tests `field not in data`
data_after(self, service_name, data) == data
\* d[k] = v on a dict: the entry keeps its place, a new key goes last
SetKey(d, k, v) ==
    IF HasKey(d, k)
    THEN PyDict([i \in 1..Len(Val(d)) |->
                    IF Val(d)[i][1] = k THEN <<k, v>> ELSE Val(d)[i]])
    ELSE PyDict(Append(Val(d), <<k, v>>))

\* the object that the keys of path lead to from obj
RECURSIVE AtPath(_, _)
AtPath(obj, path) ==
    IF path = <<>> THEN obj ELSE AtPath(Lookup(obj, Head(path)), Tail(path))

\* obj after  obj[path[1]]...[path[n]][k] = v
RECURSIVE SetPath(_, _, _, _)
SetPath(obj, path, k, v) ==
    IF path = <<>> THEN SetKey(obj, k, v)
    ELSE SetKey(obj, Head(path),
                SetPath(Lookup(obj, Head(path)), Tail(path), k, v))

\* mutant: the two methods return a copy, which lives nowhere in self.schema
returned_ref_copy(self, c) == <<>>

\* where the object a query returns lives in self.schema: dict.get hands out
\* the stored value itself, and its default {} is a new dict on every call
returned_ref(self, c) ==
    LET services == subscript(self, "services")
        service == get(services, c.service, EmptyDict)
        stored == /\ ~IsRaise(services) /\ IsDict(services)
                  /\ HasKey(services, c.service)
    IN  CASE c.op = "get_service_schema" ->
               IF stored THEN <<"services", c.service>> ELSE <<>>
          [] c.op = "get_field_tags" ->
               IF /\ stored /\ IsDict(service) /\ HasKey(service, "fields")
                  /\ IsDict(Lookup(service, "fields"))
                  /\ HasKey(Lookup(service, "fields"), c.field)
               THEN <<"services", c.service, "fields", c.field>>
               ELSE <<>>
          [] OTHER -> <<>>

\* open(schema_path, 'r'): the file's text, or the error of a path that cannot
\* be opened
open_(src) ==
    IF src[1] = "missing" THEN Raise("FileNotFoundError") ELSE src

\* json.load(f): the parsed document, or the error of text that is not JSON
json_load(f) ==
    IF f[1] = "json" THEN f[2] ELSE Raise("JSONDecodeError")

\* mutant: a source that cannot be opened is taken for an empty schema
TagValidator_init_default(src) ==
    LET f == open_(src)
    IN  IF IsRaise(f) THEN PyDict(<< <<"services", EmptyDict>> >>) ELSE json_load(f)

\* TagValidator(schema_path): the value of self.schema, or the exception that
\* ends the constructor
TagValidator_init(src) ==
    LET f == open_(src)
    IN  IF IsRaise(f) THEN f ELSE json_load(f)

----------------------------------------------------------------------------
(* The schema sources and the arguments of the calls. *)

ServiceName == "userinfo"
FieldNames == {"userPassword", "city"}

ServiceArgs == {ServiceName, "order"}
FieldArgs == FieldNames
MinLevelArgs == (0 - Slack)..(MaxLevel + Slack)

Opt(k, S) == {<<>>} \cup {<< <<k, v>> >> : v \in S}

\* a field's classification record: every key is optional.  Every piiLevel
\* (or none) goes with every required flag (or none); a retention entry goes
\* with no piiLevel and with the highest, with no required flag and with true.
LevelOpts == Opt("piiLevel", {PyInt(n) : n \in 0..MaxLevel})
RequiredOpts == Opt("required", {PyBool(TRUE), PyBool(FALSE)})
Retained == << <<"retention", PyStr("RETAIN_7_YEARS")>> >>

FieldInfos ==
    {PyDict(l \o q) : l \in LevelOpts, q \in RequiredOpts}
    \cup {PyDict(l \o Retained \o q) :
            l \in Opt("piiLevel", {PyInt(MaxLevel)}),
            q \in Opt("required", {PyBool(TRUE)})}

\* the items of a 'fields' mapping, in declaration order, names distinct
FieldItems ==
    {<<>>}
    \cup {<< <<f, i>> >> : f \in FieldNames, i \in FieldInfos}
    \cup {<< <<f[1], i1>>, <<f[2], i2>> >> :
            f \in {g \in FieldNames \X FieldNames : g[1] # g[2]},
            i1 \in FieldInfos, i2 \in FieldInfos}

ServiceDescriptors ==
    {EmptyDict} \cup {PyDict(<< <<"fields", PyDict(items)>> >>) : items \in FieldItems}

\* documents of the format the validator is written for
Documents ==
    {PyDict(<< <<"services", PyDict(svcs)>> >>) :
        svcs \in {<<>>} \cup {<< <<ServiceName, d>> >> : d \in ServiceDescriptors}}

InService(fields) == PyDict(<< <<"services",
    PyDict(<< <<ServiceName, PyDict(<< <<"fields", fields>> >>)>> >>)>> >>)

\* JSON documents of another shape
MalformedDocuments ==
    { PyList(<<>>),
      PyStr("services"),
      EmptyDict,
      PyDict(<< <<"services", PyStr("not-an-object")>> >>),
      PyDict(<< <<"services", PyDict(<< <<ServiceName, PyStr("fields")>> >>)>> >>),
      InService(PyList(<<>>)),
      InService(PyDict(<< <<"userPassword", PyStr("CRITICAL")>> >>)),
      InService(PyDict(<< <<"userPassword",
          PyDict(<< <<"piiLevel", PyInt(4)>>, <<"required", PyBool(TRUE)>> >>)>>,
                          <<"city", PyInt(1)>> >>)),
      InService(PyDict(<< <<"userPassword",
          PyDict(<< <<"piiLevel", PyStr("4")>> >>)>> >>)) }

Sources ==
    { <<"missing", PyNone>>, <<"text", PyNone>> }
    \cup {<<"json", d>> : d \in Documents \cup MalformedDocuments}

\* candidate records: a dict from field names to values
DataArgs ==
    {PyDict(a \o b) :
        a \in Opt("userPassword", {PyNone, PyStr("")}),
        b \in Opt("city", {PyInt(7)})}

----------------------------------------------------------------------------
(* The state machine. *)

NoSchema == <<"unset", 0>>
NoCall == [op |-> "", service |-> "", field |-> "", data |-> PyNone,
           min_level |-> 0, defaulted |-> FALSE]
NoResult == <<"unset", 0>>
NoKept == [call |-> NoCall, result |-> NoResult, source |-> <<>>]
NoEdit == [stored |-> FALSE, service |-> "", field |-> "", key |-> "", value |-> PyNone]
NoThreads == <<>>
IdleThread == [pc |-> "idle", call |-> NoCall, service |-> PyNone, result |-> NoResult]
NoProbe == [pc |-> "start", post |-> NoResult, user |-> NoResult, fetches |-> 0,
            get |-> NoResult, outcome |-> ""]

\* before the constructor is called on one of the sources
Fresh ==
    /\ state = "new"
    /\ schema = NoSchema
    /\ raised = ""
    /\ call = NoCall
    /\ result = NoResult
    /\ record = PyNone
    /\ alias = <<>>
    /\ reads = 0
    /\ kept = NoKept
    /\ edit = NoEdit
    /\ probe = NoProbe

Init ==
    /\ source \in Sources
    /\ Fresh
    /\ threads = NoThreads

\* validator = TagValidator(path)
Construct ==
    /\ state = "new"
    /\ LET r == TagValidator_init(source)
       IN  IF IsRaise(r)
           THEN /\ state' = "failed"
                /\ raised' = Val(r)
                /\ schema' = schema
           ELSE /\ state' = "ready"
                /\ raised' = raised
                /\ schema' = r
    /\ reads' = reads + 1
    /\ UNCHANGED <<source, call, result, record, alias, kept, edit, threads, probe>>

\* a query method called by the one caller of the validator
Query(c, r) ==
    /\ state = "ready"
    /\ call' = c
    /\ result' = r
    /\ schema' = schema_after(schema, c)
    /\ record' = data_after(schema, c.service, c.data)
    /\ alias' = returned_ref(schema, c)
    /\ UNCHANGED <<source, state, raised, reads, kept, edit, threads, probe>>

GetServiceSchema ==
    \E s \in ServiceArgs :
        Query([NoCall EXCEPT !.op = "get_service_schema", !.service = s],
              get_service_schema(schema, s))

GetFieldTags ==
    \E s \in ServiceArgs, f \in FieldArgs :
        Query([NoCall EXCEPT !.op = "get_field_tags", !.service = s, !.field = f],
              get_field_tags(schema, s, f))

ValidateFieldExists ==
    \E s \in ServiceArgs, d \in DataArgs :
        Query([NoCall EXCEPT !.op = "validate_field_exists", !.service = s, !.data = d],
              validate_field_exists(schema, s, d))

GetSensitiveFields ==
    \E s \in ServiceArgs, m \in MinLevelArgs :
        Query([NoCall EXCEPT !.op = "get_sensitive_fields", !.service = s,
                             !.min_level = m],
              get_sensitive_fields(schema, s, m))

\* get_sensitive_fields(service_name): min_level takes its default
GetSensitiveFieldsDefault ==
    \E s \in ServiceArgs :
        Query([NoCall EXCEPT !.op = "get_sensitive_fields", !.service = s,
                             !.min_level = DefaultMinLevel, !.defaulted = TRUE],
              get_sensitive_fields(schema, s, DefaultMinLevel))

ShouldFieldBeEncrypted ==
    \E s \in ServiceArgs, f \in FieldArgs :
        Query([NoCall EXCEPT !.op = "should_field_be_encrypted", !.service = s,
                             !.field = f],
              should_field_be_encrypted(schema, s, f))

GetRetentionPolicy ==
    \E s \in ServiceArgs, f \in FieldArgs :
        Query([NoCall EXCEPT !.op = "get_retention_policy", !.service = s,
                             !.field = f],
              get_retention_policy(schema, s, f))

Next ==
    \/ Construct
    \/ GetServiceSchema
    \/ GetFieldTags
    \/ ValidateFieldExists
    \/ GetSensitiveFields
    \/ GetSensitiveFieldsDefault
    \/ ShouldFieldBeEncrypted
    \/ GetRetentionPolicy

Spec == Init /\ [][Next]_vars

----------------------------------------------------------------------------
(* A caller that holds on to what a call returned, and a schema file that
   changes on disk while the validator lives. *)

\* the fields of the user-information service, as the tests expect them
ScenarioFields ==
    PyDict(<< <<"userPassword",
                PyDict(<< <<"piiLevel", PyInt(MaxLevel)>>,
                          <<"retention", PyStr("RETAIN_7_YEARS")>>,
                          <<"required", PyBool(TRUE)>> >>)>>,
              <<"city",
                PyDict(<< <<"piiLevel", PyInt(1)>>,
                          <<"required", PyBool(FALSE)>> >>)>> >>)

\* other contents the file may have
RevisedFields ==
    PyDict(<< <<"city",
                PyDict(<< <<"piiLevel", PyInt(3)>>,
                          <<"required", PyBool(TRUE)>> >>)>> >>)

ScenarioSources ==
    { <<"missing", PyNone>>,
      <<"json", InService(ScenarioFields)>>,
      <<"json", InService(RevisedFields)>> }

InitScenario ==
    /\ source \in ScenarioSources
    /\ Fresh
    /\ threads = NoThreads

\* any one of the query methods
AnyQuery ==
    \/ GetServiceSchema
    \/ GetFieldTags
    \/ ValidateFieldExists
    \/ GetSensitiveFields
    \/ GetSensitiveFieldsDefault
    \/ ShouldFieldBeEncrypted
    \/ GetRetentionPolicy

\* the caller keeps the call it just made and what it returned
Keep ==
    /\ call # NoCall
    /\ kept' = [call |-> call, result |-> result, source |-> source]
    /\ UNCHANGED <<source, state, schema, raised, call, result, record, alias,
                   reads, edit, threads, probe>>

\* the file at schema_path is rewritten, or removed
ChangeSource ==
    /\ source' \in ScenarioSources \ {source}
    /\ UNCHANGED <<state, schema, raised, call, result, record, alias, reads,
                   kept, edit, threads, probe>>

NextKeep ==
    \/ Construct
    \/ AnyQuery
    \/ Keep
    \/ ChangeSource

SpecKeep == InitScenario /\ [][NextKeep]_vars

----------------------------------------------------------------------------
(* A caller that changes the dict which get_service_schema or get_field_tags
   returned to it. *)

\* self.schema after the caller's  returned[...][k] = v,  where ref is the
\* place of the changed dict in self.schema (<<>>: it is not part of it)
schema_edited(self, ref, k, v) ==
    IF ref = <<>> THEN self ELSE SetPath(self, ref, k, v)

\* the entries a caller sets
EditEntries ==
    { <<"required", PyBool(TRUE)>>,
      <<"piiLevel", PyInt(MaxLevel)>>,
      <<"retention", PyStr("DELETE_AFTER_30_DAYS")>> }

\* returned[k] = v  on the record get_field_tags returned, or on the empty
\* dict get_service_schema returned for a service it does not know
EditReturned ==
    /\ state = "ready"
    /\ \/ call.op = "get_field_tags"
       \/ call.op = "get_service_schema" /\ alias = <<>>
    /\ IsDict(result)
    /\ \E e \in EditEntries :
          /\ result' = SetKey(result, e[1], e[2])
          /\ schema' = schema_edited(schema, alias, e[1], e[2])
          /\ edit' = [stored |-> alias # <<>>, service |-> call.service,
                      field |-> call.field, key |-> e[1], value |-> e[2]]
    /\ UNCHANGED <<source, state, raised, call, record, alias, reads, kept,
                   threads, probe>>

\* returned['fields'][f][k] = v  on the descriptor get_service_schema returned
EditFieldOfService ==
    /\ state = "ready"
    /\ call.op = "get_service_schema"
    /\ alias # <<>>
    /\ IsDict(result) /\ HasKey(result, "fields")
    /\ IsDict(Lookup(result, "fields"))
    /\ \E f \in Keys(Lookup(result, "fields")), e \in EditEntries :
          /\ IsDict(Lookup(Lookup(result, "fields"), f))
          /\ result' = SetPath(result, <<"fields", f>>, e[1], e[2])
          /\ schema' = schema_edited(schema, alias \o <<"fields", f>>, e[1], e[2])
          /\ edit' = [stored |-> TRUE, service |-> call.service, field |-> f,
                      key |-> e[1], value |-> e[2]]
    /\ UNCHANGED <<source, state, raised, call, record, alias, reads, kept,
                   threads, probe>>

NextAlias ==
    \/ Construct
    \/ AnyQuery
    \/ EditReturned
    \/ EditFieldOfService

SpecAlias == InitScenario /\ [][NextAlias]_vars

----------------------------------------------------------------------------
(* Several callers of one validator. Every method starts by reading
   self.schema, through get_service_schema, and goes on with what it read in
   local variables; a caller can be overtaken before and after that read. *)

Callers == 1..NumCallers

\* the calls the callers make
ConcCalls ==
    { [NoCall EXCEPT !.op = "get_service_schema", !.service = ServiceName],
      [NoCall EXCEPT !.op = "get_field_tags", !.service = ServiceName,
                     !.field = "userPassword"],
      [NoCall EXCEPT !.op = "validate_field_exists", !.service = ServiceName,
                     !.data = EmptyDict],
      [NoCall EXCEPT !.op = "validate_field_exists", !.service = "order",
                     !.data = EmptyDict],
      [NoCall EXCEPT !.op = "get_sensitive_fields", !.service = ServiceName,
                     !.min_level = EncryptLevel],
      [NoCall EXCEPT !.op = "get_sensitive_fields", !.service = ServiceName,
                     !.min_level = DefaultMinLevel, !.defaulted = TRUE],
      [NoCall EXCEPT !.op = "should_field_be_encrypted", !.service = ServiceName,
                     !.field = "userPassword"],
      [NoCall EXCEPT !.op = "get_retention_policy", !.service = ServiceName,
                     !.field = "city"] }

\* the call c made by a caller that is alone with the validator
alone(self, c) ==
    CASE c.op = "get_service_schema" -> get_service_schema(self, c.service)
      [] c.op = "get_field_tags" -> get_field_tags(self, c.service, c.field)
      [] c.op = "validate_field_exists" ->
             validate_field_exists(self, c.service, c.data)
      [] c.op = "get_sensitive_fields" ->
             get_sensitive_fields(self, c.service, c.min_level)
      [] c.op = "should_field_be_encrypted" ->
             should_field_be_encrypted(self, c.service, c.field)
      [] c.op = "get_retention_policy" ->
             get_retention_policy(self, c.service, c.field)

\* the rest of each method, from the descriptor get_service_schema returned
\* to it
finish(service, c) ==
    LET fields == get(service, "fields", EmptyDict)
        tags == get(fields, c.field, EmptyDict)
    IN  CASE c.op = "get_service_schema" -> service
          [] c.op = "get_field_tags" -> tags
          [] c.op = "validate_field_exists" ->
                 ( CASE IsRaise(fields) -> fields
                     [] ~IsDict(fields) -> Raise("AttributeError")
                     [] OTHER ->
                          LET required == required_fields(Val(fields), 1, <<>>)
                          IN  IF IsRaise(required) THEN required
                              ELSE missing_fields(Val(required), c.data, 1, <<>>) )
          [] c.op = "get_sensitive_fields" ->
                 ( CASE IsRaise(fields) -> fields
                     [] ~IsDict(fields) -> Raise("AttributeError")
                     [] OTHER -> sensitive_loop(Val(fields), c.min_level, 1, <<>>) )
          [] c.op = "should_field_be_encrypted" ->
                 ge(get(tags, "piiLevel", PyInt(0)), EncryptLevel)
          [] c.op = "get_retention_policy" ->
                 get(tags, "retention", PyStr("RETAIN_INDEFINITE"))

\* mutant: the descriptor is put in an attribute of the validator, which the
\* callers share, and not in a local variable
fetch_store_shared(ths, t, service) ==
    [u \in DOMAIN ths |->
        IF u = t THEN [ths[u] EXCEPT !.pc = "fetched", !.service = service]
        ELSE IF ths[u].pc = "fetched" THEN [ths[u] EXCEPT !.service = service]
        ELSE ths[u]]

\* service = self.get_service_schema(service_name): a local of caller t
fetch_store(ths, t, service) ==
    [ths EXCEPT ![t] = [@ EXCEPT !.pc = "fetched", !.service = service]]

InitConc ==
    /\ source \in ScenarioSources
    /\ Fresh
    /\ threads = [t \in Callers |-> IdleThread]

Others == <<source, state, schema, raised, call, result, record, alias, reads,
            kept, edit, probe>>

\* caller t enters a method
Begin(t) ==
    /\ state = "ready"
    /\ threads[t].pc = "idle"
    /\ \E c \in ConcCalls :
          threads' = [threads EXCEPT ![t] = [IdleThread EXCEPT !.pc = "called",
                                                               !.call = c]]
    /\ UNCHANGED Others

\* caller t reads self.schema
Fetch(t) ==
    /\ threads[t].pc = "called"
    /\ threads' = fetch_store(threads, t,
                      get_service_schema(schema, threads[t].call.service))
    /\ UNCHANGED Others

\* caller t runs the rest of the method
Finish(t) ==
    /\ threads[t].pc = "fetched"
    /\ threads' = [threads EXCEPT ![t] =
                      [@ EXCEPT !.pc = "returned",
                                !.result = finish(threads[t].service,
                                                  threads[t].call)]]
    /\ UNCHANGED Others

\* caller t is done with the result
Return(t) ==
    /\ threads[t].pc = "returned"
    /\ threads' = [threads EXCEPT ![t] = IdleThread]
    /\ UNCHANGED Others

NextConc ==
    \/ Construct
    \/ \E t \in Callers : Begin(t)
    \/ \E t \in Callers : Fetch(t)
    \/ \E t \in Callers : Finish(t)
    \/ \E t \in Callers : Return(t)

SpecConc == InitConc /\ [][NextConc]_vars

----------------------------------------------------------------------------
(* tests/security/test_authentication.py: the test_user fixture and
   test_no_authentication_required, run by pytest against a user service
   that answers as it pleases. *)

\* a requests.Response, and pytest.skip(msg)
Response(status, body) == <<"response", [status |-> status, body |-> body]>>
Skip(msg) == <<"skip", msg>>

\* test_user: response.json() after a 201, None after any other status
test_user(response) ==
    IF IsRaise(response) THEN response
    ELSE IF Val(response).status = 201 THEN json_load(Val(response).body)
    ELSE PyNone

\* the test up to the URL of its request: skip without a user, or the value
\* of test_user['userId']
fetch_target(user) ==
    IF ~truthy(user) THEN Skip("Test user not created")
    ELSE subscript(user, "userId")

\* mutant: the elif accepts 403 as well as 401
verify_lenient(response) ==
    CASE IsRaise(response) -> response
      [] Val(response).status = 200 -> Skip("VULNERABILITY CONFIRMED")
      [] Val(response).status \in {401, 403} -> PyNone
      [] OTHER -> Raise("Failed")

\* the step "Verify Authentication Requirement": skip on 200, return on 401,
\* pytest.fail on all else
verify(response) ==
    CASE IsRaise(response) -> response
      [] Val(response).status = 200 -> Skip("VULNERABILITY CONFIRMED")
      [] Val(response).status = 401 -> PyNone
      [] OTHER -> Raise("Failed")

\* what pytest reports for a test function that ended with v
reported(v) ==
    CASE Tag(v) = "skip" -> "skipped"
      [] Tag(v) = "raise" -> "failed"
      [] OTHER -> "passed"

\* the service's answers to POST /user/addUser
UserBodies ==
    {<<"json", PyDict(<< <<"userId", PyInt(n)>>,
                         <<"username", PyStr("test_auth_user")>> >>)>> :
        n \in 1..MaxUserId}
    \cup { <<"json", EmptyDict>>,
           <<"json", PyNone>>,
           <<"json", PyDict(<< <<"id", PyInt(1)>> >>)>>,
           <<"json", PyInt(1)>>,
           <<"text", PyNone>> }

PostReplies ==
    {Raise("ConnectionError")}
    \cup {Response(201, b) : b \in UserBodies}
    \cup {Response(st, <<"text", PyNone>>) : st \in {200, 400, 409, 500, 503}}

\* the service's answers to GET /user/fetchUserById/{id} without headers
GetReplies ==
    {Raise("ConnectionError")}
    \cup {Response(st, <<"text", PyNone>>) :
            st \in {200, 201, 204, 302, 400, 401, 403, 404, 405, 500, 502, 503}}

InitAuth ==
    /\ source = <<"missing", PyNone>>
    /\ Fresh
    /\ threads = NoThreads

Validator == <<source, state, schema, raised, call, result, record, alias,
               reads, kept, edit, threads>>

\* pytest sets up test_user: requests.post(.../user/addUser, json=user_data)
AddUser ==
    /\ probe.pc = "start"
    /\ \E r \in PostReplies :
          LET u == test_user(r)
          IN  probe' = IF IsRaise(u)
                       THEN [probe EXCEPT !.pc = "done", !.post = r,
                                          !.outcome = "error"]
                       ELSE [probe EXCEPT !.pc = "setup", !.post = r, !.user = u]
    /\ UNCHANGED Validator

\* the test function starts: the guard, then the URL of the request
EnterTest ==
    /\ probe.pc = "setup"
    /\ LET t == fetch_target(probe.user)
       IN  probe' = IF Tag(t) \in {"skip", "raise"}
                    THEN [probe EXCEPT !.pc = "done", !.outcome = reported(t)]
                    ELSE [probe EXCEPT !.pc = "fetching"]
    /\ UNCHANGED Validator

\* requests.get(url, headers={})
FetchUser ==
    /\ probe.pc = "fetching"
    /\ \E r \in GetReplies :
          probe' = [probe EXCEPT !.pc = "answered", !.get = r,
                                 !.fetches = probe.fetches + 1]
    /\ UNCHANGED Validator

\* the rest of the test function
Verify ==
    /\ probe.pc = "answered"
    /\ probe' = [probe EXCEPT !.pc = "done",
                              !.outcome = reported(verify(probe.get))]
    /\ UNCHANGED Validator

NextAuth ==
    \/ AddUser
    \/ EnterTest
    \/ FetchUser
    \/ Verify

SpecAuth == InitAuth /\ [][NextAuth]_vars

----------------------------------------------------------------------------
(* What the properties say about a document, read off the document itself. *)

\* the document has the format of the classification schema: a 'services'
\* mapping of descriptors, each with an optional 'fields' mapping of records
\* whose optional entries have their types
WellFormedInfo(info) ==
    /\ IsDict(info)
    /\ HasKey(info, "piiLevel") => Tag(Lookup(info, "piiLevel")) = "int"
    /\ HasKey(info, "retention") => Tag(Lookup(info, "retention")) = "str"
    /\ HasKey(info, "required") => Tag(Lookup(info, "required")) = "bool"

WellFormedDescriptor(d) ==
    /\ IsDict(d)
    /\ HasKey(d, "fields") =>
         /\ IsDict(Lookup(d, "fields"))
         /\ \A i \in 1..Len(Val(Lookup(d, "fields"))) :
                WellFormedInfo(Val(Lookup(d, "fields"))[i][2])

WellFormed(doc) ==
    /\ IsDict(doc)
    /\ HasKey(doc, "services")
    /\ IsDict(Lookup(doc, "services"))
    /\ \A i \in 1..Len(Val(Lookup(doc, "services"))) :
           WellFormedDescriptor(Val(Lookup(doc, "services"))[i][2])

KnownService(doc, s) == HasKey(Lookup(doc, "services"), s)

\* the (name, record) items the document declares for service s, in
\* declaration order; none for a service it does not have
DeclaredItems(doc, s) ==
    IF ~KnownService(doc, s) THEN <<>>
    ELSE LET d == Lookup(Lookup(doc, "services"), s)
         IN  IF HasKey(d, "fields") THEN Val(Lookup(d, "fields")) ELSE <<>>

DeclaredNames(doc, s) ==
    {DeclaredItems(doc, s)[i][1] : i \in 1..Len(DeclaredItems(doc, s))}

DeclaredInfo(doc, s, f) ==
    LET items == DeclaredItems(doc, s)
    IN  items[CHOOSE i \in 1..Len(items) : items[i][1] = f][2]

IsRequired(info) == HasKey(info, "required") /\ Lookup(info, "required") = PyBool(TRUE)

LevelOf(info) == IF HasKey(info, "piiLevel") THEN Val(Lookup(info, "piiLevel")) ELSE 0

\* names is exactly the names of the items at the positions in want, each
\* once, in ascending position
NamesAt(items, want, names) ==
    /\ Len(names) = Cardinality(want)
    /\ \A k \in 1..Len(names) :
          \E i \in want : /\ items[i][1] = names[k]
                          /\ Cardinality({j \in want : j < i}) = k - 1

\* a is b with some elements left out
IsSubsequence(a, b) ==
    \E f \in [1..Len(a) -> 1..Len(b)] :
        /\ \A i \in 1..Len(a) : b[f[i]] = a[i]
        /\ \A i, j \in 1..Len(a) : i < j => f[i] < f[j]

----------------------------------------------------------------------------
(* Properties. *)

\* C1: on a well-formed document, validate_field_exists(service, record)
\* returns exactly the declared fields of the service whose 'required' flag is
\* true and that are not keys of the record, each once, in declaration order;
\* so it returns [] iff every required field is a key of the record.
C1_MissingRequiredInOrder ==
    (call.op = "validate_field_exists" /\ WellFormed(schema)) =>
        LET items == DeclaredItems(schema, call.service)
            want == {i \in 1..Len(items) :
                        /\ IsRequired(items[i][2])
                        /\ items[i][1] \notin Keys(call.data)}
        IN  /\ Tag(result) = "list"
            /\ NamesAt(items, want, Val(result))
            /\ (result = PyList(<<>>)) <=>
                  \A i \in 1..Len(items) :
                      IsRequired(items[i][2]) => items[i][1] \in Keys(call.data)

\* required {userPassword, city} with a record holding only userPassword
\* gives [city]
C1_Witness ==
    /\ call.op = "validate_field_exists"
    /\ WellFormed(schema)
    /\ Len(DeclaredItems(schema, call.service)) = 2
    /\ \A f \in FieldNames : IsRequired(DeclaredInfo(schema, call.service, f))
    /\ Keys(call.data) = {"userPassword"}
    /\ result = PyList(<<"city">>)

\* C2: on a well-formed document, get_sensitive_fields(service, min_level)
\* returns exactly the declared fields whose piiLevel (0 when absent) is
\* >= min_level, in declaration order; without min_level it is the result for 2.
C2_SensitiveAtOrAboveInOrder ==
    (call.op = "get_sensitive_fields" /\ WellFormed(schema)) =>
        LET items == DeclaredItems(schema, call.service)
            m == IF call.defaulted THEN 2 ELSE call.min_level
            want == {i \in 1..Len(items) : LevelOf(items[i][2]) >= m}
        IN  /\ Tag(result) = "list"
            /\ NamesAt(items, want, Val(result))

\* the bound is inclusive: a field is returned at min_level equal to its level,
\* while a lower field declared before it is left out
C2_Witness ==
    /\ call.op = "get_sensitive_fields"
    /\ ~call.defaulted
    /\ WellFormed(schema)
    /\ Len(DeclaredItems(schema, call.service)) = 2
    /\ LevelOf(DeclaredItems(schema, call.service)[1][2]) < call.min_level
    /\ LevelOf(DeclaredItems(schema, call.service)[2][2]) = call.min_level
    /\ result = PyList(<<DeclaredItems(schema, call.service)[2][1]>>)

\* C3: on a well-formed document, should_field_be_encrypted(s, f) is true iff
\* the record get_field_tags(s, f) has a piiLevel >= 3 (none counts as 0), and
\* it is false for an unknown service or field.
C3_EncryptedIffLevelAtLeast3 ==
    (call.op = "should_field_be_encrypted" /\ WellFormed(schema)) =>
        LET tags == get_field_tags(schema, call.service, call.field)
        IN  /\ result = PyBool(LevelOf(tags) >= 3)
            /\ call.field \notin DeclaredNames(schema, call.service)
                  => result = PyBool(FALSE)

\* a field of level exactly 3 must be encrypted
C3_Witness ==
    /\ call.op = "should_field_be_encrypted"
    /\ WellFormed(schema)
    /\ call.field \in DeclaredNames(schema, call.service)
    /\ LevelOf(DeclaredInfo(schema, call.service, call.field)) = 3
    /\ result = PyBool(TRUE)

C5Malformed(doc) ==
    \/ ~IsDict(doc)
    \/ ~HasKey(doc, "services")
    \/ ~IsDict(Lookup(doc, "services"))
    \/ \E i \in 1..Len(Val(Lookup(doc, "services"))) :
          LET d == Val(Lookup(doc, "services"))[i][2]
          IN  /\ IsDict(d) /\ HasKey(d, "fields") /\ IsDict(Lookup(d, "fields"))
              /\ \E j \in 1..Len(Val(Lookup(d, "fields"))) :
                     ~IsDict(Val(Lookup(d, "fields"))[j][2])

\* C5: a malformed document fails the construction, with SchemaParseError;
\* a validator is never built on it, so no query meets the bad part.
C5_MalformedFailsAtConstruction ==
    (source[1] = "json" /\ C5Malformed(source[2]) /\ state # "new") =>
        /\ state = "failed"
        /\ raised = "SchemaParseError"

\* C6: once the validator is constructed, no query raises.
C6_QueriesNeverRaise ==
    state = "ready" => ~IsRaise(result)

\* the record with every entry at its default
AllDefaults(r) ==
    /\ IsDict(r)
    /\ Keys(r) = {"piiLevel", "retention", "required"}
    /\ Lookup(r, "piiLevel") = PyInt(0)
    /\ Lookup(r, "retention") = PyStr("RETAIN_INDEFINITE")
    /\ Lookup(r, "required") = PyBool(FALSE)

UnknownField(doc, s, f) == f \notin DeclaredNames(doc, s)

\* C7 as stated: for an unknown service or field get_field_tags returns the
\* record piiLevel = 0, retention = "RETAIN_INDEFINITE", required = false.
C7_UnknownGivesDefaultsRecord ==
    (call.op = "get_field_tags" /\ WellFormed(schema)
        /\ UnknownField(schema, call.service, call.field)) => AllDefaults(result)

\* C7, amended: for an unknown service or field get_field_tags returns the
\* empty record, with no entry at all; piiLevel 0, "RETAIN_INDEFINITE" and
\* required false are what the reading operations substitute for the
\* missing entries.
C7_UnknownGivesEmptyRecord ==
    (call.op = "get_field_tags" /\ WellFormed(schema)
        /\ UnknownField(schema, call.service, call.field)) =>
            /\ result = EmptyDict
            /\ get(result, "piiLevel", PyInt(0)) = PyInt(0)
            /\ get(result, "retention", PyStr("RETAIN_INDEFINITE"))
                  = PyStr("RETAIN_INDEFINITE")
            /\ get(result, "required", PyBool(FALSE)) = PyBool(FALSE)

\* a field the known service does not declare, beside one it declares
C7_Witness ==
    /\ call.op = "get_field_tags"
    /\ WellFormed(schema)
    /\ KnownService(schema, call.service)
    /\ DeclaredNames(schema, call.service) # {}
    /\ UnknownField(schema, call.service, call.field)
    /\ result = EmptyDict

\* C8: on a well-formed document, get_retention_policy(s, f) is the field's
\* 'retention' entry when the field is declared with one, and
\* "RETAIN_INDEFINITE" otherwise.
C8_RetentionOrDefault ==
    (call.op = "get_retention_policy" /\ WellFormed(schema)) =>
        IF /\ call.field \in DeclaredNames(schema, call.service)
           /\ HasKey(DeclaredInfo(schema, call.service, call.field), "retention")
        THEN result = Lookup(DeclaredInfo(schema, call.service, call.field), "retention")
        ELSE result = PyStr("RETAIN_INDEFINITE")

\* a declared field with a piiLevel and no retention entry
C8_Witness ==
    /\ call.op = "get_retention_policy"
    /\ WellFormed(schema)
    /\ call.field \in DeclaredNames(schema, call.service)
    /\ HasKey(DeclaredInfo(schema, call.service, call.field), "piiLevel")
    /\ ~HasKey(DeclaredInfo(schema, call.service, call.field), "retention")
    /\ result = PyStr("RETAIN_INDEFINITE")

\* C9: on a well-formed document, get_service_schema(s) is the stored
\* descriptor when s is a key of 'services', and the descriptor with no fields
\* otherwise; it does not raise.
C9_DescriptorOrEmpty ==
    (call.op = "get_service_schema" /\ WellFormed(schema)) =>
        /\ ~IsRaise(result)
        /\ IF KnownService(schema, call.service)
           THEN result = Lookup(Lookup(schema, "services"), call.service)
           ELSE result = EmptyDict

\* a name the document does not have, beside a service it has
C9_Witness ==
    /\ call.op = "get_service_schema"
    /\ WellFormed(schema)
    /\ Val(Lookup(schema, "services")) # <<>>
    /\ ~KnownService(schema, call.service)
    /\ result = EmptyDict

\* C10: for two get_sensitive_fields calls on the same service of a well-formed
\* document, one after the other, the call with the higher (or equal)
\* min_level returns the other's result with some fields left out: every field
\* it returns the other returns too, in the same relative order.
C10_ThresholdMonotone ==
    [][ ( /\ call.op = "get_sensitive_fields"
          /\ call'.op = "get_sensitive_fields"
          /\ call.service = call'.service
          /\ WellFormed(schema) )
        => /\ call.min_level <= call'.min_level
                => IsSubsequence(Val(result'), Val(result))
           /\ call'.min_level <= call.min_level
                => IsSubsequence(Val(result), Val(result')) ]_vars

\* a threshold that keeps the second declared field and drops the first
C10_Witness ==
    /\ call.op = "get_sensitive_fields"
    /\ WellFormed(schema)
    /\ Len(DeclaredItems(schema, call.service)) = 2
    /\ LevelOf(DeclaredItems(schema, call.service)[1][2]) < call.min_level
    /\ LevelOf(DeclaredItems(schema, call.service)[2][2]) > call.min_level
    /\ Len(Val(result)) = 1

Elems(seq) == {seq[i] : i \in 1..Len(seq)}

\* C12: no query changes the validator or the caller's record: in every state
\* after construction self.schema is the document that was loaded, and after
\* validate_field_exists the candidate record is as it was passed in; the
\* method returns a list of its own and nothing of the validator refers to
\* the record.
C12_QueriesChangeNothing ==
    state = "ready" =>
        /\ schema = source[2]
        /\ call.op = "validate_field_exists" =>
              /\ record = call.data
              /\ alias = <<>>

\* after a call on a service the document does not have, with a record that
\* has entries
C12_Witness ==
    /\ call.op = "validate_field_exists"
    /\ WellFormed(schema)
    /\ ~KnownService(schema, call.service)
    /\ Keys(call.data) = FieldNames
    /\ record = call.data
    /\ schema = source[2]

\* C14: validate_field_exists tests key presence only: a field that is a key
\* of the record is never reported missing, whatever the value under it.
C14_PresentKeyNeverMissing ==
    (call.op = "validate_field_exists" /\ Tag(result) = "list") =>
        \A f \in Keys(call.data) : f \notin Elems(Val(result))

\* a required field present with the value None, and one present with ""
C14_Witness ==
    /\ call.op = "validate_field_exists"
    /\ WellFormed(schema)
    /\ "userPassword" \in DeclaredNames(schema, call.service)
    /\ IsRequired(DeclaredInfo(schema, call.service, "userPassword"))
    /\ HasKey(call.data, "userPassword")
    /\ Lookup(call.data, "userPassword") = PyNone
    /\ result = PyList(<<>>)

\* a get_field_tags call on a field that the get_sensitive_fields(service, 3)
\* call just before it returned
C16Case ==
    /\ call.op = "get_sensitive_fields"
    /\ call.min_level = 3
    /\ Tag(result) = "list"
    /\ call'.op = "get_field_tags"
    /\ call'.service = call.service
    /\ call'.field \in Elems(Val(result))

C17Agree(enc, f, sens, c) ==
    /\ (~c.defaulted /\ c.min_level = 3) =>
          (enc = PyBool(TRUE) <=> f \in Elems(Val(sens)))
    /\ c.defaulted => (enc = PyBool(TRUE) => f \in Elems(Val(sens)))

C17_EncryptedIffSensitiveAt3 ==
    [][ (WellFormed(schema) /\ call.service = call'.service) =>
          /\ (call.op = "should_field_be_encrypted"
                /\ call'.op = "get_sensitive_fields")
                => C17Agree(result, call.field, result', call')
          /\ (call.op = "get_sensitive_fields"
                /\ call'.op = "should_field_be_encrypted")
                => C17Agree(result', call'.field, result, call) ]_vars

\* a field of level exactly 3, which must be encrypted
C17_Witness ==
    /\ call.op = "should_field_be_encrypted"
    /\ WellFormed(schema)
    /\ call.field \in DeclaredNames(schema, call.service)
    /\ LevelOf(DeclaredInfo(schema, call.service, call.field)) = 3
    /\ ~HasKey(DeclaredInfo(schema, call.service, call.field), "required")
    /\ result = PyBool(TRUE)

\* C18: for a service name that is no key of 'services', validate_field_exists
\* returns [] for every record and get_sensitive_fields returns [] for every
\* min_level, those <= 0 too.
C18_UnknownServiceGivesEmpty ==
    ( /\ call.op \in {"validate_field_exists", "get_sensitive_fields"}
      /\ IsDict(schema) /\ HasKey(schema, "services")
      /\ IsDict(Lookup(schema, "services"))
      /\ ~KnownService(schema, call.service) )
    => result = PyList(<<>>)

\* get_sensitive_fields with a min_level below 0 on a service the document
\* does not have, beside one whose fields it declares
C18_Witness ==
    /\ call.op = "get_sensitive_fields"
    /\ call.min_level < 0
    /\ WellFormed(schema)
    /\ ~KnownService(schema, call.service)
    /\ DeclaredNames(schema, ServiceName) # {}
    /\ result = PyList(<<>>)

\* C19: on a well-formed document the result of validate_field_exists has no
\* key of the record, only declared fields whose 'required' flag is true, and
\* no field twice; and of two calls on the same service, one after the other,
\* the one whose record has the fewer keys (a subset) reports every field the
\* other reports.
C19_AntitoneInRecord ==
    [][ (call'.op = "validate_field_exists" /\ WellFormed(schema)) =>
          LET new == Val(result')
          IN  /\ Tag(result') = "list"
              /\ \A i \in 1..Len(new) :
                    /\ new[i] \notin Keys(call'.data)
                    /\ new[i] \in DeclaredNames(schema, call'.service)
                    /\ IsRequired(DeclaredInfo(schema, call'.service, new[i]))
                    /\ \A j \in 1..Len(new) : new[j] = new[i] => j = i
              /\ (call.op = "validate_field_exists"
                    /\ call.service = call'.service) =>
                    /\ Keys(call.data) \subseteq Keys(call'.data)
                          => Elems(new) \subseteq Elems(Val(result))
                    /\ Keys(call'.data) \subseteq Keys(call.data)
                          => Elems(Val(result)) \subseteq Elems(new) ]_vars

\* two required fields, of which the record has one
C19_Witness ==
    /\ call.op = "validate_field_exists"
    /\ WellFormed(schema)
    /\ \A f \in FieldNames :
          /\ f \in DeclaredNames(schema, call.service)
          /\ IsRequired(DeclaredInfo(schema, call.service, f))
    /\ Keys(call.data) = {"city"}
    /\ result = PyList(<<"userPassword">>)

C15_SourceReadOnceAtConstruction ==
    /\ state = "new" => (reads = 0 /\ call = NoCall)
    /\ state # "new" => reads = 1
    /\ (call = kept.call /\ source # kept.source) => result = kept.result

\* the file has been replaced by one with other fields since the kept call,
\* and the call made again describes the fields that were loaded
C15_Witness ==
    /\ state = "ready"
    /\ reads = 1
    /\ schema = InService(ScenarioFields)
    /\ source = <<"json", InService(RevisedFields)>>
    /\ kept.source = <<"json", InService(ScenarioFields)>>
    /\ kept.call.op = "get_sensitive_fields"
    /\ call = kept.call
    /\ result = PyList(<<"userPassword">>)

\* the last query was made after the caller's last change, on its service
C20After == edit # NoEdit /\ call.service = edit.service

\* what the queries answer after the caller's last change
C20Reflected ==
    /\ alias # <<>> => result = AtPath(schema, alias)
    /\ (C20After /\ edit.stored) =>
          /\ (call.op = "should_field_be_encrypted" /\ call.field = edit.field
                /\ edit.key = "piiLevel")
                => result = PyBool(Val(edit.value) >= 3)
          /\ (call.op = "get_sensitive_fields" /\ edit.key = "piiLevel")
                => (edit.field \in Elems(Val(result))
                       <=> Val(edit.value) >= call.min_level)
          /\ (call.op = "validate_field_exists" /\ edit.key = "required")
                => (edit.field \in Elems(Val(result))
                       <=> edit.field \notin Keys(call.data))
          /\ (call.op = "get_retention_policy" /\ call.field = edit.field
                /\ edit.key = "retention")
                => result = edit.value
          /\ (call.op = "get_field_tags" /\ call.field = edit.field)
                => (HasKey(result, edit.key)
                       /\ Lookup(result, edit.key) = edit.value)
    /\ (C20After /\ ~edit.stored) =>
          /\ (call.op = "should_field_be_encrypted" /\ call.field = edit.field)
                => result = PyBool(FALSE)
          /\ (call.op = "get_retention_policy" /\ call.field = edit.field)
                => result = PyStr("RETAIN_INDEFINITE")
          /\ call.op \in {"validate_field_exists", "get_sensitive_fields"}
                => edit.field \notin Elems(Val(result))

\* C20: get_service_schema and get_field_tags return the stored object: as
\* long as the caller holds it, it is the one in self.schema, and an entry the
\* caller sets in it ('required', 'piiLevel', 'retention') is what later
\* validate_field_exists, get_sensitive_fields, should_field_be_encrypted,
\* get_retention_policy and get_field_tags calls go by. The empty dict returned
\* for an unknown service or field is no part of self.schema: setting an entry
\* in it leaves self.schema and every later answer as they were.
C20_ReturnedObjectIsStored ==
    [][ /\ C20Reflected'
        /\ (state = "ready" /\ alias = <<>>) => schema' = schema ]_vars

\* the caller raised the level of city, a level 1 field, in the record it got,
\* and should_field_be_encrypted now answers True for it
C20_Witness ==
    /\ source = <<"json", InService(ScenarioFields)>>
    /\ edit.stored
    /\ edit.field = "city"
    /\ edit.key = "piiLevel"
    /\ call.op = "should_field_be_encrypted"
    /\ call.service = ServiceName
    /\ call.field = "city"
    /\ result = PyBool(TRUE)

\* C13: with several callers in the methods of one validator at once, every
\* call returns, under every interleaving, what the same call returns when
\* its caller is alone; the code takes no lock.
C13_ConcurrentCallsAsAlone ==
    \A t \in DOMAIN threads :
        threads[t].pc = "returned" =>
            threads[t].result = alone(schema, threads[t].call)

\* a caller has returned the missing fields of the user-information service
\* while another, after it read the descriptor of another service, is still
\* in its method
C13_Witness ==
    \E t, u \in DOMAIN threads :
        /\ t # u
        /\ threads[t].pc = "returned"
        /\ threads[t].call.op = "validate_field_exists"
        /\ threads[t].call.service = ServiceName
        /\ threads[t].result = PyList(<<"userPassword">>)
        /\ threads[u].pc = "fetched"
        /\ threads[u].call.service # ServiceName

\* C21: on a well-formed document, in get_sensitive_fields a field with no
\* 'piiLevel' entry counts as level 0: it is returned iff min_level <= 0; for
\* min_level <= 0 the result is every declared field of the service in
\* declaration order; for min_level >= 1 the record get_field_tags gives for
\* each returned field has an explicit 'piiLevel' entry, so that
\* tags['piiLevel'] does not raise.
C21_NoLevelCountsAsZero ==
    (call.op = "get_sensitive_fields" /\ WellFormed(schema)) =>
        LET items == DeclaredItems(schema, call.service)
        IN  /\ Tag(result) = "list"
            /\ \A i \in 1..Len(items) :
                  ~HasKey(items[i][2], "piiLevel") =>
                      (items[i][1] \in Elems(Val(result)) <=> call.min_level <= 0)
            /\ call.min_level <= 0 =>
                  Val(result) = [i \in 1..Len(items) |-> items[i][1]]
            /\ call.min_level >= 1 =>
                  \A f \in Elems(Val(result)) :
                      LET tags == get_field_tags(schema, call.service, f)
                      IN  /\ HasKey(tags, "piiLevel")
                          /\ ~IsRaise(subscript(tags, "piiLevel"))

\* at min_level 1 a field declared without a level is left out and the one
\* declared after it, with a level, is returned
C21_Witness ==
    /\ call.op = "get_sensitive_fields"
    /\ call.min_level = 1
    /\ WellFormed(schema)
    /\ Len(DeclaredItems(schema, call.service)) = 2
    /\ ~HasKey(DeclaredItems(schema, call.service)[1][2], "piiLevel")
    /\ HasKey(DeclaredItems(schema, call.service)[2][2], "piiLevel")
    /\ result = PyList(<<DeclaredItems(schema, call.service)[2][1]>>)

\* the fixture's POST was answered with status 201
C22Created == ~IsRaise(probe.post) /\ Val(probe.post).status = 201

\* the test's outcome for the answer to its fetch, where the fetch was answered
C22ByStatus ==
    ~IsRaise(probe.get) =>
        /\ Val(probe.get).status = 200 => probe.outcome = "skipped"
        /\ Val(probe.get).status = 401 => probe.outcome = "passed"
        /\ Val(probe.get).status \notin {200, 401} => probe.outcome = "failed"
        /\ probe.outcome = "passed" => Val(probe.get).status = 401

\* C22 as stated: without a 201 from user creation the test is skipped before
\* any fetch; with a 201 exactly one fetch is sent and the test is skipped on
\* 200, passed only on 401 and failed on every other status.
C22_OutcomeByStatusAlone ==
    probe.pc = "done" =>
        IF ~C22Created
        THEN probe.outcome = "skipped" /\ probe.fetches = 0
        ELSE probe.fetches = 1 /\ C22ByStatus

\* C22, amended: the test is skipped before any fetch when the fixture gives
\* no user, which is after a status other than 201 and also after a 201 whose
\* JSON body is empty or null; it ends in error, before any fetch, when the
\* POST raises or the 201 body is not JSON; it fails, before any fetch, when
\* the user has no 'userId'; otherwise exactly one fetch is sent and the test
\* is skipped on 200, passed on 401 only, failed on every other status and
\* when the fetch raises. At most one fetch is ever sent.
C22_OutcomeByUserAndStatus ==
    /\ probe.fetches <= 1
    /\ probe.pc = "done" =>
          LET body == Val(probe.post).body
              user == body[2]
          IN  IF IsRaise(probe.post) \/ (C22Created /\ body[1] # "json")
              THEN probe.outcome = "error" /\ probe.fetches = 0
              ELSE IF ~C22Created \/ ~truthy(user)
              THEN probe.outcome = "skipped" /\ probe.fetches = 0
              ELSE IF ~(IsDict(user) /\ HasKey(user, "userId"))
              THEN probe.outcome = "failed" /\ probe.fetches = 0
              ELSE /\ probe.fetches = 1
                   /\ C22ByStatus
                   /\ IsRaise(probe.get) => probe.outcome = "failed"

\* a user was created, the one fetch was answered 403, and the test failed
C22_Witness ==
    /\ probe.pc = "done"
    /\ C22Created
    /\ probe.user = PyDict(<< <<"userId", PyInt(1)>>,
                              <<"username", PyStr("test_auth_user")>> >>)
    /\ probe.fetches = 1
    /\ ~IsRaise(probe.get)
    /\ Val(probe.get).status = 403
    /\ probe.outcome = "failed"

====
